---- MODULE Spec2Model ----
(***************************************************************************)
(* vmss-nmi: a run of the program over one VMSS file.                      *)
(*                                                                         *)
(* The file is a sequence of bytes (0..255).  Multi-byte integers are      *)
(* little-endian byte sequences (the producer's native order on x86);      *)
(* 32-bit and 64-bit quantities are kept as byte sequences so that their   *)
(* full width is preserved, and are converted to small integers only      *)
(* where the code uses them as counts or offsets.                          *)
(*                                                                         *)
(* One action per library call of main(), process() and setnmi():          *)
(* getopt, fopen, fread, fseek, fwrite, fclose, exit.                      *)
(***************************************************************************)
EXTENDS Integers, Sequences, FiniteSets, TLC

(***************************************************************************)
(* Bounds of the model.                                                    *)
(***************************************************************************)
\* Number of options on the command line.
MaxArgs == 3
\* Number of entries of the group table in the group-table family of files.
MaxGroups == 2
\* Number of records of the cpu group in the record-stream family of files.
MaxRecs == 2

(***************************************************************************)
(* Constants of the program.                                               *)
(***************************************************************************)
VMSS_MAGIC_OLD == <<208, 190, 208, 190>>
VMSS_MAGIC_RESTORED == <<209, 190, 209, 190>>
VMSS_MAGIC == <<210, 190, 210, 190>>
VMSS_MAGIC_PARTIAL == <<211, 190, 211, 190>>

VMSS_TAG_NAMELEN_MASK == 255
VMSS_TAG_NAMELEN_SHIFT == 8
VMSS_TAG_NINDX_MASK == 3
VMSS_TAG_NINDX_SHIFT == 6
VMSS_TAG_VALSIZE_MASK == 63
VMSS_TAG_VALSIZE_SHIFT == 0
VMSS_TAG_NULL == 0
VMSS_TAG_VALSIZE_BLOCK_COMPRESSED == 62
VMSS_TAG_VALSIZE_BLOCK == 63
VMSS_GROUP_NAMELEN == 64

\* sizeof (vmss_header_t), sizeof (vmss_group_t), sizeof (vmss_block_t),
\* sizeof (vmss_block_padsize_t), sizeof (vmss_tag_t), sizeof (vmss_index_t)
SizeofHeader == 12
SizeofGroup == 80
SizeofBlock == 16
SizeofPad == 2
SizeofTag == 2
SizeofIndex == 4

\* The string literals "cpu" and "pendingNMI" as bytes (ASCII).
StrCpu == <<99, 112, 117>>
StrPendingNMI == <<112, 101, 110, 100, 105, 110, 103, 78, 77, 73>>

(***************************************************************************)
(* Integer arithmetic of the C types.                                      *)
(***************************************************************************)
Pow2(n) == 2 ^ n

\* (t >> s) & m for a mask m = 2^k - 1
ShiftMask(t, s, m) == (t \div Pow2(s)) % (m + 1)

\* Mutation: the index count is taken from three bits.
VMSS_TAG_NINDXWide(t) == ShiftMask(t, VMSS_TAG_NINDX_SHIFT, 2 * VMSS_TAG_NINDX_MASK + 1)

\* Mutation: the value size is taken from five bits.
VMSS_TAG_VALSIZENarrow(t) == ShiftMask(t, VMSS_TAG_VALSIZE_SHIFT, VMSS_TAG_VALSIZE_MASK \div 2)

VMSS_TAG_NAMELEN(t) == ShiftMask(t, VMSS_TAG_NAMELEN_SHIFT, VMSS_TAG_NAMELEN_MASK)
VMSS_TAG_NINDX(t) == ShiftMask(t, VMSS_TAG_NINDX_SHIFT, VMSS_TAG_NINDX_MASK)
VMSS_TAG_VALSIZE(t) == ShiftMask(t, VMSS_TAG_VALSIZE_SHIFT, VMSS_TAG_VALSIZE_MASK)

VMSS_TAG_ISBLOCK(t) ==
    \/ VMSS_TAG_VALSIZE(t) = VMSS_TAG_VALSIZE_BLOCK_COMPRESSED
    \/ VMSS_TAG_VALSIZE(t) = VMSS_TAG_VALSIZE_BLOCK

\* A value beyond every file offset of the model: offsets of this size or
\* more all behave alike (a seek to them succeeds, a read there finds no byte).
Far == 2 ^ 30

\* The little-endian bytes b (4 of them) as uint32_t, for values that are
\* used as a count; values of 2^31 and more read as Far.
U32(b) ==
    IF b[4] >= 128 THEN Far
    ELSE b[1] + 256 * b[2] + 65536 * b[3] + 16777216 * b[4]

\* The little-endian bytes b (2 of them) as uint16_t.
U16(b) == b[1] + 256 * b[2]

\* The 8 little-endian bytes b converted to long (two's complement), as
\* fseek receives them; magnitudes of 2^30 and more read as Far or -Far.
Long(b) ==
    IF b[8] >= 128
    THEN IF b[5] = 255 /\ b[6] = 255 /\ b[7] = 255 /\ b[8] = 255 /\ b[4] >= 192
         THEN b[1] + 256 * b[2] + 65536 * b[3] + 16777216 * (b[4] - 256)
         ELSE 0 - Far
    ELSE IF b[5] = 0 /\ b[6] = 0 /\ b[7] = 0 /\ b[8] = 0 /\ b[4] < 64
         THEN b[1] + 256 * b[2] + 65536 * b[3] + 16777216 * b[4]
         ELSE Far

\* uint64_t + uint16_t, modulo 2^64, on little-endian bytes.
RECURSIVE AddCarry(_, _, _, _)
AddCarry(a, p, i, carry) ==
    IF i > Len(a) THEN <<>>
    ELSE LET s == a[i] + (IF i <= Len(p) THEN p[i] ELSE 0) + carry
         IN  <<s % 256>> \o AddCarry(a, p, i + 1, s \div 256)

Add64(a, p) == AddCarry(a, p, 1, 0)

\* An int converted to uint32_t (the usual arithmetic conversions of
\* idx[0] != g_cpu), as little-endian bytes.
IntToU32(n) ==
    IF n >= 0
    THEN <<n % 256, (n \div 256) % 256, (n \div 65536) % 256, n \div 16777216>>
    ELSE LET m == (0 - n) - 1
         IN  <<255 - (m % 256), 255 - ((m \div 256) % 256),
               255 - ((m \div 65536) % 256), 255 - (m \div 16777216)>>

\* strcmp(buf, lit) == 0 for a buffer that holds the bytes buf followed by
\* a NUL: the comparison stops at the first NUL of either string.
StrEq(buf, lit) ==
    LET s == buf \o <<0>>
    IN  /\ Len(s) >= Len(lit) + 1
        /\ \A k \in 1..Len(lit) : s[k] = lit[k]
        /\ s[Len(lit) + 1] = 0

(***************************************************************************)
(* The file format, as the code reads it: the layout of a VMSS file built  *)
(* from a description d = [magic, ngroups, groups, streams, cut].          *)
(***************************************************************************)
\* Little-endian bytes of a small natural number n, in k bytes.
LE(n, k) ==
    [j \in 1..k |-> IF j <= 3 THEN (n \div (256 ^ (j - 1))) % 256
                    ELSE IF j = 4 THEN n \div 16777216 ELSE 0]

Zeros(k) == [j \in 1..k |-> 0]

RECURSIVE Flatten(_)
Flatten(ss) == IF ss = <<>> THEN <<>> ELSE Head(ss) \o Flatten(Tail(ss))

\* The 16-bit tag code of a record: name length, index count, value size.
TagCode(it) ==
    Len(it.name) * Pow2(VMSS_TAG_NAMELEN_SHIFT)
        + Len(it.idx) * Pow2(VMSS_TAG_NINDX_SHIFT)
        + it.vsize * Pow2(VMSS_TAG_VALSIZE_SHIFT)

\* A tag record on disk: tag code, name, indices, payload, with no gaps.
EncItem(it) == LE(TagCode(it), SizeofTag) \o it.name \o Flatten(it.idx) \o it.data

EncStream(s) == Flatten([j \in 1..Len(s) |-> EncItem(s[j])])

\* Offset of stream k of the description, of its item n, and of that
\* item's payload.
StreamOff(d, k) ==
    SizeofHeader + SizeofGroup * Len(d.groups)
        + Len(Flatten([j \in 1..(k - 1) |-> EncStream(d.streams[j])]))

ItemOff(d, k, n) ==
    StreamOff(d, k) + Len(EncStream(SubSeq(d.streams[k], 1, n - 1)))

PayloadOff(d, k, n) ==
    LET it == d.streams[k][n]
    IN  ItemOff(d, k, n) + SizeofTag + Len(it.name) + SizeofIndex * Len(it.idx)

\* A group-table entry: name in a 64-byte field, offset, declared size.
\* g.size < 0 declares the exact size of the stream the entry points at.
EncGroup(d, g) ==
    g.name \o Zeros(VMSS_GROUP_NAMELEN - Len(g.name))
        \o LE(StreamOff(d, g.tgt), 8)
        \o LE(IF g.size < 0 THEN Len(EncStream(d.streams[g.tgt])) ELSE g.size, 8)

EncFile(d) ==
    LET whole == d.magic \o LE(1, 4) \o LE(d.ngroups, 4)
                     \o Flatten([j \in 1..Len(d.groups) |-> EncGroup(d, d.groups[j])])
                     \o Flatten([j \in 1..Len(d.streams) |-> EncStream(d.streams[j])])
    IN  IF d.cut < 0 THEN whole ELSE SubSeq(whole, 1, d.cut)

(***************************************************************************)
(* The files of the model.                                                 *)
(***************************************************************************)
Cpu0 == IntToU32(0)
Cpu1 == IntToU32(1)
CpuAll == <<255, 255, 255, 255>>

Terminator == [name |-> <<>>, idx |-> <<>>, vsize |-> 0, data |-> <<>>]
NmiRec(k, v) == [name |-> StrPendingNMI, idx |-> <<k>>, vsize |-> 1, data |-> <<v>>]
NmiSized(sz) == [name |-> StrPendingNMI, idx |-> <<Cpu0>>, vsize |-> sz, data |-> Zeros(sz)]
OtherRec == [name |-> <<111, 116, 104, 101, 114>>, idx |-> <<Cpu0>>, vsize |-> 4,
             data |-> <<1, 1, 1, 1>>]
NoNameRec == [name |-> <<>>, idx |-> <<>>, vsize |-> 1, data |-> <<1>>]
\* pendingNMI with no index: idx[0] is the zero of bzero.
NmiNoIdx == [name |-> StrPendingNMI, idx |-> <<>>, vsize |-> 1, data |-> <<0>>]
\* A block of s payload bytes and p pad bytes.
BlockData(s, p) == LE(s, 8) \o LE(s, 8) \o LE(p, SizeofPad) \o Zeros(s + p)
BlockRec(nm, code, s, p) == [name |-> nm, idx |-> <<>>, vsize |-> code, data |-> BlockData(s, p)]

Magics == {VMSS_MAGIC_OLD, VMSS_MAGIC_RESTORED, VMSS_MAGIC, VMSS_MAGIC_PARTIAL, Zeros(4)}

\* "cpu" and "cpus"
GroupNames == {StrCpu, <<99, 112, 117, 115>>}

\* The end-to-end stream: an unrelated 4-byte tag, pendingNMI[0] = 0, the
\* terminator.
EndToEnd == <<OtherRec, NmiRec(Cpu0, 0), Terminator>>
\* Two CPUs, and a record behind the terminator.
TwoCpus == <<NmiRec(Cpu1, 0), NmiRec(Cpu0, 1), Terminator, NmiRec(Cpu0, 0)>>

SeqsUpTo(S, n) == UNION {[1..k -> S] : k \in 0..n}

\* Family 1: every magic over the end-to-end file.
MagicFiles ==
    {[magic |-> m, ngroups |-> 1,
      groups |-> <<[name |-> StrCpu, tgt |-> 1, size |-> 0 - 1]>>,
      streams |-> <<EndToEnd>>, cut |-> 0 - 1] : m \in Magics}

\* Family 2: every group table of at most MaxGroups entries over two streams.
GroupEntries == [name : GroupNames, tgt : {1, 2}, size : {0 - 1, 0}]

TableFiles ==
    {[magic |-> VMSS_MAGIC, ngroups |-> Len(t), groups |-> t,
      streams |-> <<EndToEnd, TwoCpus>>, cut |-> 0 - 1] : t \in SeqsUpTo(GroupEntries, MaxGroups)}

\* Family 3: one cpu group holding every stream of at most MaxRecs records.
Items ==
    {Terminator, OtherRec, NoNameRec,
     NmiRec(Cpu0, 0), NmiRec(Cpu1, 0), NmiRec(CpuAll, 0),
     NmiNoIdx, NmiSized(0), NmiSized(2), NmiSized(61),
     BlockRec(StrPendingNMI, VMSS_TAG_VALSIZE_BLOCK_COMPRESSED, 1, 0),
     BlockRec(<<98>>, VMSS_TAG_VALSIZE_BLOCK, 2, 1)}

StreamFiles ==
    {[magic |-> VMSS_MAGIC_RESTORED, ngroups |-> 1,
      groups |-> <<[name |-> StrCpu, tgt |-> 1, size |-> 0 - 1]>>,
      streams |-> <<s>>, cut |-> 0 - 1] : s \in SeqsUpTo(Items, MaxRecs)}

\* Family 4: the end-to-end file cut short at every length.
CutFiles ==
    LET d == [magic |-> VMSS_MAGIC_PARTIAL, ngroups |-> 1,
              groups |-> <<[name |-> StrCpu, tgt |-> 1, size |-> 0 - 1]>>,
              streams |-> <<EndToEnd>>, cut |-> 0 - 1]
    IN  {[d EXCEPT !.cut = c] : c \in 0..(Len(EncFile(d)) - 1)}

Files == MagicFiles \cup TableFiles \cup StreamFiles \cup CutFiles

\* Family 5: one cpu group whose second record is a block with any of the
\* shapes below: the 8 bytes of its size (repeated as memsize), the 2 bytes
\* of its pad, and the number of bytes that follow its header.
Ones(k) == [j \in 1..k |-> 255]

RawBlock(code, sh) ==
    [name |-> <<98>>, idx |-> <<>>, vsize |-> code,
     data |-> sh.s \o sh.s \o sh.p \o Zeros(sh.nd)]

BlockShapes ==
    {[s |-> LE(2, 8), p |-> LE(1, 2), nd |-> 3],            \* 2 + 1, all present
     [s |-> LE(0, 8), p |-> LE(0, 2), nd |-> 0],            \* empty
     [s |-> LE(3, 8), p |-> Ones(2), nd |-> 0],             \* the largest pad
     [s |-> LE(1000, 8), p |-> LE(0, 2), nd |-> 0],         \* beyond the end of the file
     [s |-> LE(0, 4) \o LE(1, 4), p |-> LE(0, 2), nd |-> 0],          \* 2^32
     [s |-> Ones(7) \o <<127>>, p |-> LE(0, 2), nd |-> 0],            \* 2^63 - 1
     [s |-> Ones(7) \o <<127>>, p |-> LE(1, 2), nd |-> 0],            \* 2^63 - 1, + 1
     [s |-> Ones(8), p |-> LE(1, 2), nd |-> 0],                       \* 2^64 - 1, + 1
     [s |-> Ones(8), p |-> LE(0, 2), nd |-> 0],                       \* 2^64 - 1
     [s |-> <<235>> \o Ones(7), p |-> LE(0, 2), nd |-> 0]}            \* 2^64 - 21

BlockFiles ==
    {[magic |-> VMSS_MAGIC, ngroups |-> 1,
      groups |-> <<[name |-> StrCpu, tgt |-> 1, size |-> 0 - 1]>>,
      streams |-> <<<<OtherRec, RawBlock(c, sh), NmiRec(Cpu0, 0), Terminator>>>>,
      cut |-> 0 - 1] :
        c \in {VMSS_TAG_VALSIZE_BLOCK_COMPRESSED, VMSS_TAG_VALSIZE_BLOCK}, sh \in BlockShapes}

\* Family 6: one cpu group whose second record has any of the names below,
\* any number of indices and a value of 1 or 4 bytes.
LongName == [j \in 1..VMSS_TAG_NAMELEN_MASK |-> 110]

RecordNames ==
    {StrPendingNMI,
     StrPendingNMI \o <<0, 120>>,          \* pendingNMI, NUL, x
     StrPendingNMI \o <<120>>,             \* pendingNMIx
     SubSeq(StrPendingNMI, 1, 9),          \* pendingNM
     LongName}

Named(nm, n, sz) ==
    [name |-> nm, idx |-> [k \in 1..n |-> IF k = 1 THEN Cpu0 ELSE Cpu1], vsize |-> sz,
     data |-> Zeros(sz)]

NameFiles ==
    {[magic |-> VMSS_MAGIC, ngroups |-> 1,
      groups |-> <<[name |-> StrCpu, tgt |-> 1, size |-> 0 - 1]>>,
      streams |-> <<<<BlockRec(<<98>>, VMSS_TAG_VALSIZE_BLOCK, 2, 1), Named(nm, n, sz),
                      OtherRec, Terminator>>>>,
      cut |-> 0 - 1] :
        nm \in RecordNames, n \in 0..VMSS_TAG_NINDX_MASK, sz \in {1, 4}}

\* No file: the description before fopen.
NoFile == [magic |-> <<>>, ngroups |-> 0, groups |-> <<>>, streams |-> <<>>, cut |-> 0]

(***************************************************************************)
(* The command line.                                                       *)
(***************************************************************************)
OptArgs == {<<"0">>, <<"1">>, <<"-", "1">>, <<"1", "x">>}

Options ==
    {[opt |-> o, arg |-> <<>>] : o \in {"n", "v", "z", "x"}}
        \cup {[opt |-> "c", arg |-> a] : a \in OptArgs}

IsDigit(c) == c \in {"0", "1", "2", "3", "4", "5", "6", "7", "8", "9"}

DigitVal(c) ==
    CASE c = "0" -> 0 [] c = "1" -> 1 [] c = "2" -> 2 [] c = "3" -> 3 [] c = "4" -> 4
      [] c = "5" -> 5 [] c = "6" -> 6 [] c = "7" -> 7 [] c = "8" -> 8 [] c = "9" -> 9

RECURSIVE Digits(_, _, _)
Digits(s, k, acc) ==
    IF k <= Len(s) /\ IsDigit(s[k]) THEN Digits(s, k + 1, 10 * acc + DigitVal(s[k]))
    ELSE [val |-> acc, end |-> k]

\* g_cpu = strtoul(optarg, &end, 10): an optional sign, then decimal digits;
\* the unsigned long result is converted to int.  end is the index of the
\* first character not converted (Len(s) + 1 stands for the NUL); with no
\* digit at all, end is the start of the string.
StrToUL(s) ==
    LET signed == s # <<>> /\ s[1] \in {"-", "+"}
        first == IF signed THEN 2 ELSE 1
        r == Digits(s, first, 0)
    IN  IF r.end = first THEN [val |-> 0, end |-> 1]
        ELSE [val |-> IF signed /\ s[1] = "-" THEN 0 - r.val ELSE r.val, end |-> r.end]

(***************************************************************************)
(* State.                                                                  *)
(***************************************************************************)
VARIABLES
    args,       \* options of the command line not yet seen by getopt
    operand,    \* whether a file name follows the options
    disk,       \* the family of files that the operand may name
    g_cpu, g_nmi, g_verbose,
    sawN,       \* history: -n was among the options processed
    pc,         \* position of the program
    src,        \* history: the description of the file that was opened
    file,       \* the bytes of the file, as the stream sees them
    pos,        \* the stream's file position
    lastio,     \* last operation on the stream: "s" seek, "r" read, "w" write
    hdr, ngroups, groups, i,            \* locals of process()
    tag, name, idx, blk, pad, buf,      \* locals of setnmi()
    len, nindx, size,                   \* the fields of tag, as setnmi() keeps them
    offs,                               \* ftell() at the header of a block
    at,         \* history: offset of the tag of the record at hand (-1: none yet)
    scans,      \* history: the group index and offset of every call of setnmi()
    status,     \* exit status
    err,        \* the diagnostic of fatal() or usage()
    out,        \* the lines of warn()
    rd,         \* history: offsets of the bytes read
    wr          \* history: offsets of the bytes written, in order

cmd == <<args, operand, disk>>
cfg == <<g_cpu, g_nmi, g_verbose, sawN>>
stream == <<src, file, pos, lastio, rd, wr>>
plocals == <<hdr, ngroups, groups, i>>
dec == <<len, nindx, size>>
slocals == <<tag, dec, name, idx, offs, blk, pad, buf>>
hist == <<at, scans>>
result == <<status, err, out>>
vars == <<cmd, cfg, pc, stream, plocals, slocals, result, hist>>

\* The state at the entry of main(), apart from the command line.
Start ==
    /\ g_cpu = 0 /\ g_nmi = 1 /\ g_verbose = 0
    /\ sawN = FALSE
    /\ src = NoFile /\ file = <<>> /\ pos = 0 /\ lastio = "s"
    /\ hdr = <<>> /\ ngroups = 0 /\ groups = <<>> /\ i = 0
    /\ name = <<>> /\ idx = <<>> /\ blk = <<>> /\ pad = <<>> /\ buf = <<>>
    /\ len = 0 /\ nindx = 0 /\ size = 0 /\ offs = 0
    /\ status = 0 /\ err = "" /\ out = <<>>
    /\ rd = {} /\ wr = <<>>
    /\ at = 0 - 1 /\ scans = <<>>

\* A command line, and the family F of files behind its operand.
Invoke(F) ==
    /\ args \in SeqsUpTo(Options, MaxArgs)
    /\ operand \in BOOLEAN
    /\ disk = F
    /\ pc = "getopt"
    /\ tag = 0
    /\ Start

Init == Invoke("files")

\* fatal() and usage(): a diagnostic, then exit(EXIT_FAILURE).
Fatal(msg) == pc' = "exit" /\ status' = 1 /\ err' = msg

(***************************************************************************)
(* main()                                                                  *)
(***************************************************************************)
ParseOpt ==
    /\ pc = "getopt" /\ args # <<>>
    /\ LET o == Head(args)
           r == StrToUL(o.arg)
       IN  /\ args' = Tail(args)
           /\ g_cpu' = (CASE o.opt = "c" -> r.val [] o.opt = "n" -> 0 - 1 [] OTHER -> g_cpu)
           /\ g_verbose' = (IF o.opt = "v" THEN 1 ELSE g_verbose)
           /\ g_nmi' = (IF o.opt = "z" THEN 0 ELSE g_nmi)
           /\ sawN' = (sawN \/ o.opt = "n")
           /\ CASE o.opt = "c" /\ (r.end # Len(o.arg) + 1 \/ r.val < 0) ->
                      Fatal("invalid CPU")
                [] o.opt \notin {"c", "v", "z", "n"} -> Fatal("usage")
                [] OTHER -> UNCHANGED <<pc, status, err>>
    /\ UNCHANGED <<operand, disk, stream, plocals, slocals, out, hist>>

ParseDone ==
    /\ pc = "getopt" /\ args = <<>>
    /\ IF ~operand THEN Fatal("expected a VMSS file")
       ELSE pc' = "open" /\ UNCHANGED <<status, err>>
    /\ UNCHANGED <<cmd, cfg, stream, plocals, slocals, out, hist>>

(***************************************************************************)
(* stdio on the stream.                                                    *)
(***************************************************************************)
Min(a, b) == IF a < b THEN a ELSE b

Max(a, b) == IF a > b THEN a ELSE b

\* fread(ptr, size, nmemb, fp) at the current position: n is the number of
\* complete items read (zero when size or nmemb is zero), data the bytes
\* transferred, next the position after the call.
Fread(sz, nmemb) ==
    LET avail == IF Len(file) > pos THEN Len(file) - pos ELSE 0
        took == Min(sz * nmemb, avail)
    IN  [n |-> IF sz = 0 \/ nmemb = 0 THEN 0 ELSE Min(nmemb, avail \div sz),
         data |-> SubSeq(file, pos + 1, pos + took),
         next |-> pos + took]

\* The effect of a read r on the stream.
DoRead(r) ==
    /\ pos' = r.next
    /\ rd' = rd \cup (pos..(r.next - 1))
    /\ lastio' = "r"
    /\ UNCHANGED <<src, file, wr>>

(***************************************************************************)
(* process()                                                               *)
(***************************************************************************)
\* The files of a family.
Family(f) ==
    CASE f = "blocks" -> BlockFiles
      [] f = "names" -> NameFiles
      [] OTHER -> Files

Open ==
    /\ pc = "open"
    /\ \E d \in Family(disk) :
          /\ src' = d
          /\ file' = EncFile(d)
    /\ pos' = 0 /\ lastio' = "s"
    /\ pc' = "header"
    /\ UNCHANGED <<cmd, cfg, rd, wr, plocals, slocals, result, hist>>

OpenFail ==
    /\ pc = "open"
    /\ Fatal("can't open")
    /\ UNCHANGED <<cmd, cfg, stream, plocals, slocals, out, hist>>

ReadHeader ==
    /\ pc = "header"
    /\ LET r == Fread(SizeofHeader, 1)
       IN  /\ DoRead(r)
           /\ IF r.n # 1
              THEN Fatal("couldn't read VMSS header") /\ UNCHANGED hdr
              ELSE /\ hdr' = [vmss_hdr_id |-> SubSeq(r.data, 1, 4),
                              vmss_hdr_version |-> SubSeq(r.data, 5, 8),
                              vmss_hdr_numgroups |-> SubSeq(r.data, 9, 12)]
                   /\ pc' = "magic"
                   /\ UNCHANGED <<status, err>>
    /\ UNCHANGED <<cmd, cfg, ngroups, groups, i, slocals, out, hist>>

\* Mutation: every magic but the 32-bit one is taken.
MagicSupportedAny(id) == TRUE

\* The cases of the switch that break.
MagicSupported(id) == id \in {VMSS_MAGIC, VMSS_MAGIC_RESTORED, VMSS_MAGIC_PARTIAL}

CheckMagic ==
    /\ pc = "magic"
    /\ CASE hdr.vmss_hdr_id = VMSS_MAGIC_OLD ->
               Fatal("can't read 32-bit VMSS file") /\ UNCHANGED ngroups
         [] MagicSupported(hdr.vmss_hdr_id) ->
               /\ ngroups' = U32(hdr.vmss_hdr_numgroups)
               /\ pc' = "groups"
               /\ UNCHANGED <<status, err>>
         [] OTHER -> Fatal("not recognized as a VMSS file") /\ UNCHANGED ngroups
    /\ UNCHANGED <<cmd, cfg, stream, hdr, groups, i, slocals, out, hist>>

ReadGroups ==
    /\ pc = "groups"
    /\ LET r == Fread(SizeofGroup, ngroups)
       IN  /\ DoRead(r)
           /\ IF r.n # ngroups
              THEN Fatal("couldn't read groups") /\ UNCHANGED <<groups, i>>
              ELSE /\ groups' =
                        [j \in 1..ngroups |->
                            LET g == SubSeq(r.data, SizeofGroup * (j - 1) + 1, SizeofGroup * j)
                            IN  [vmss_group_name |-> SubSeq(g, 1, VMSS_GROUP_NAMELEN),
                                 vmss_group_offs |-> SubSeq(g, VMSS_GROUP_NAMELEN + 1,
                                                            VMSS_GROUP_NAMELEN + 8),
                                 vmss_group_size |-> SubSeq(g, VMSS_GROUP_NAMELEN + 9,
                                                            VMSS_GROUP_NAMELEN + 16)]]
                   /\ i' = 0
                   /\ pc' = "loop"
                   /\ UNCHANGED <<status, err>>
    /\ UNCHANGED <<cmd, cfg, hdr, ngroups, slocals, out, hist>>

\* Mutation: the name of a group is compared over its first three bytes.
IsCpuGroupPrefix(g) == SubSeq(g.vmss_group_name, 1, Len(StrCpu)) = StrCpu

\* Mutation: every group is taken for a cpu group.
IsCpuGroupAny(g) == TRUE

\* strcmp(grp->vmss_group_name, "cpu") == 0
IsCpuGroup(g) == StrEq(g.vmss_group_name, StrCpu)

\* One turn of the loop over the groups: setnmi() is entered for a cpu group.
GroupLoop ==
    /\ pc = "loop" /\ i < ngroups
    /\ IF IsCpuGroup(groups[i + 1])
       THEN pc' = "setnmi" /\ UNCHANGED i
       ELSE i' = i + 1 /\ UNCHANGED pc
    /\ UNCHANGED <<cmd, cfg, stream, hdr, ngroups, groups, slocals, result, hist>>

\* fclose(fp), and main returns.
Close ==
    /\ pc = "loop" /\ i = ngroups
    /\ pc' = "exit" /\ status' = 0
    /\ UNCHANGED <<cmd, cfg, stream, plocals, slocals, err, out, hist>>

(***************************************************************************)
(* setnmi()                                                                *)
(***************************************************************************)
\* Mutation: a seek beyond the end of the file fails.
SeekFailsPastEnd(to) == to < 0 \/ to > Len(file)

\* fseek(...) == -1: the resulting offset would be negative.  A seek beyond
\* the end of the file succeeds.
SeekFails(to) == to < 0

SeekGroup ==
    /\ pc = "setnmi"
    /\ LET to == Long(groups[i + 1].vmss_group_offs)
       IN  /\ scans' = Append(scans, [group |-> i + 1, offs |-> to])
           /\ IF SeekFails(to)
              THEN Fatal("couldn't read group") /\ UNCHANGED stream
              ELSE /\ pos' = to /\ lastio' = "s"
                   /\ pc' = "tag"
                   /\ UNCHANGED <<src, file, rd, wr, status, err>>
    /\ at' = 0 - 1
    /\ UNCHANGED <<cmd, cfg, plocals, slocals, out>>

\* The outcomes of fread directly after fwrite on an update stream, with no
\* fflush or file positioning call between them (undefined by the C
\* standard): the read is carried out, or it fails.
ReadOutcomes == IF lastio = "w" THEN {TRUE, FALSE} ELSE {TRUE}

\* Mutation: a tag with an empty name ends the stream.
EndOfStreamNoName(t) == t < 256

\* tag == VMSS_TAG_NULL
EndOfStream(t) == t = VMSS_TAG_NULL

\* The capacities of name[], idx[] and buf[], in elements.
NameCap == VMSS_TAG_NAMELEN_MASK + 1
IdxCap == VMSS_TAG_NINDX_MASK
BufCap == VMSS_TAG_VALSIZE_MASK

\* len, nindx and size are taken from the tag.
Decode(t) ==
    /\ len' = VMSS_TAG_NAMELEN(t)
    /\ nindx' = VMSS_TAG_NINDX(t)
    /\ size' = VMSS_TAG_VALSIZE(t)

ReadTag ==
    /\ pc = "tag"
    /\ \E ok \in ReadOutcomes :
          LET r == IF ok THEN Fread(SizeofTag, 1) ELSE [n |-> 0, data |-> <<>>, next |-> pos]
          IN  /\ DoRead(r)
              /\ IF r.n # 1
                 THEN Fatal("couldn't read tag") /\ UNCHANGED <<tag, dec, i>>
                 ELSE /\ tag' = U16(r.data)
                      /\ IF EndOfStream(tag')
                         THEN pc' = "loop" /\ i' = i + 1 /\ UNCHANGED dec
                         ELSE pc' = "name" /\ Decode(tag') /\ UNCHANGED i
                      /\ UNCHANGED <<status, err>>
    /\ at' = pos
    /\ UNCHANGED <<cmd, cfg, hdr, ngroups, groups, name, idx, offs, blk, pad, buf, out, scans>>

ReadName ==
    /\ pc = "name"
    /\ LET r == Fread(len, 1)
       IN  /\ DoRead(r)
           /\ IF r.n # 1
              THEN Fatal("couldn't read name") /\ UNCHANGED name
              ELSE name' = r.data /\ pc' = "index" /\ UNCHANGED <<status, err>>
    /\ UNCHANGED <<cmd, cfg, plocals, tag, dec, idx, offs, blk, pad, buf, out, hist>>

ReadIndex ==
    /\ pc = "index"
    /\ LET r == Fread(SizeofIndex, nindx)
           stored == (Len(r.data) + SizeofIndex - 1) \div SizeofIndex
       IN  /\ DoRead(r)
           /\ idx' = [k \in 1..Max(IdxCap, stored) |->
                         [b \in 1..SizeofIndex |->
                             IF SizeofIndex * (k - 1) + b <= Len(r.data)
                             THEN r.data[SizeofIndex * (k - 1) + b] ELSE 0]]
           /\ IF r.n # nindx
              THEN Fatal("couldn't read index")
              ELSE pc' = "dispatch" /\ UNCHANGED <<status, err>>
    /\ UNCHANGED <<cmd, cfg, plocals, tag, dec, name, offs, blk, pad, buf, out, hist>>

ReadBlock ==
    /\ pc = "dispatch" /\ VMSS_TAG_ISBLOCK(tag)
    /\ offs' = pos
    /\ LET r == Fread(SizeofBlock, 1)
       IN  /\ DoRead(r)
           /\ IF r.n # 1
              THEN Fatal("couldn't read block") /\ UNCHANGED blk
              ELSE /\ blk' = [vmss_block_size |-> SubSeq(r.data, 1, 8),
                              vmss_block_memsize |-> SubSeq(r.data, 9, 16)]
                   /\ pc' = "pad"
                   /\ UNCHANGED <<status, err>>
    /\ UNCHANGED <<cmd, cfg, plocals, tag, dec, name, idx, pad, buf, out, hist>>

ReadPad ==
    /\ pc = "pad"
    /\ LET r == Fread(SizeofPad, 1)
       IN  /\ DoRead(r)
           /\ IF r.n # 1
              THEN Fatal("couldn't read padding") /\ UNCHANGED pad
              ELSE pad' = r.data /\ pc' = "skip" /\ UNCHANGED <<status, err>>
    /\ UNCHANGED <<cmd, cfg, plocals, tag, dec, name, idx, offs, blk, buf, out, hist>>

\* fseek(fp, blk.vmss_block_size + pad, SEEK_CUR)
SkipBlock ==
    /\ pc = "skip"
    /\ LET to == pos + Long(Add64(blk.vmss_block_size, pad))
       IN  IF SeekFails(to)
           THEN Fatal("unable to skip block") /\ UNCHANGED stream
           ELSE /\ pos' = to /\ lastio' = "s"
                /\ pc' = "tag"
                /\ UNCHANGED <<src, file, rd, wr, status, err>>
    /\ UNCHANGED <<cmd, cfg, plocals, slocals, out, hist>>

\* strcmp(name, "pendingNMI") == 0
IsPendingNMI(nm) == StrEq(nm, StrPendingNMI)

\* fseek(fp, size, SEEK_CUR) over the value of any other record
SkipValue ==
    /\ pc = "dispatch" /\ ~VMSS_TAG_ISBLOCK(tag) /\ ~IsPendingNMI(name)
    /\ pos' = pos + size /\ lastio' = "s"
    /\ pc' = "tag"
    /\ UNCHANGED <<cmd, cfg, src, file, rd, wr, plocals, slocals, result, hist>>

\* Mutation: the size of a pendingNMI record is not checked.
ExpectedSizeAny(n) == TRUE

\* The size a pendingNMI record must have.
ExpectedSize(n) == n = 1

CheckSize ==
    /\ pc = "dispatch" /\ ~VMSS_TAG_ISBLOCK(tag) /\ IsPendingNMI(name)
    /\ IF ~ExpectedSize(size)
       THEN Fatal("found pendingNMI size to be unexpected value")
       ELSE pc' = "value" /\ UNCHANGED <<status, err>>
    /\ UNCHANGED <<cmd, cfg, stream, plocals, slocals, out, hist>>

ReadValue ==
    /\ pc = "value"
    /\ LET r == Fread(size, 1)
       IN  /\ DoRead(r)
           /\ IF r.n # 1
              THEN Fatal("couldn't read buffer") /\ UNCHANGED buf
              ELSE buf' = r.data /\ pc' = "match" /\ UNCHANGED <<status, err>>
    /\ UNCHANGED <<cmd, cfg, plocals, tag, dec, name, idx, offs, blk, pad, out, hist>>

\* Mutation: every pendingNMI record is taken for the target CPU's.
IsTargetCpuAny(i0, cpu) == TRUE

\* idx[0] != g_cpu is false: g_cpu is converted to uint32_t.
IsTargetCpu(i0, cpu) == i0 = IntToU32(cpu)

\* The warn() line of a pendingNMI record, and the choice of writing.
Report ==
    /\ pc = "match"
    /\ IF ~IsTargetCpu(idx[1], g_cpu)
       THEN /\ out' = Append(out, [cpu |-> idx[1], val |-> buf[1],
                                   what |-> IF g_cpu = 0 - 1 THEN "is" ELSE "skipping"])
            /\ pc' = "tag"
       ELSE /\ out' = Append(out, [cpu |-> idx[1], val |-> buf[1], what |-> "setting"])
            /\ pc' = "reset"
    /\ UNCHANGED <<cmd, cfg, stream, plocals, slocals, status, err, hist>>

\* Mutation: the seek back is two bytes.
ResetToTwoBack(p) == p - 2

\* The offset of fseek(fp, -1, SEEK_CUR).
ResetTo(p) == p - 1

SeekBack ==
    /\ pc = "reset"
    /\ IF SeekFails(ResetTo(pos))
       THEN Fatal("couldn't reset offset") /\ UNCHANGED stream
       ELSE /\ pos' = ResetTo(pos) /\ lastio' = "s"
            /\ pc' = "write"
            /\ UNCHANGED <<src, file, rd, wr, status, err>>
    /\ UNCHANGED <<cmd, cfg, plocals, slocals, out, hist>>

\* Mutation: the replacement is always 1 (-z is ignored).
ReplacementAlwaysSet(nmi) == 1

\* buf[0] = g_nmi
Replacement(nmi) == nmi

\* buf[0] = g_nmi; fwrite(buf, size, 1, fp)
WriteValue ==
    /\ pc = "write"
    /\ buf' = [buf EXCEPT ![1] = Replacement(g_nmi)]
    /\ file' = [k \in 1..(IF pos + 1 > Len(file) THEN pos + 1 ELSE Len(file)) |->
                   IF k = pos + 1 THEN buf'[1] ELSE IF k <= Len(file) THEN file[k] ELSE 0]
    /\ wr' = Append(wr, pos)
    /\ pos' = pos + 1 /\ lastio' = "w"
    /\ pc' = "tag"
    /\ UNCHANGED <<cmd, cfg, src, rd, plocals, tag, dec, name, idx, offs, blk, pad, result, hist>>

Next ==
    \/ ParseOpt \/ ParseDone
    \/ Open \/ OpenFail
    \/ ReadHeader \/ CheckMagic \/ ReadGroups \/ GroupLoop \/ Close
    \/ SeekGroup \/ ReadTag \/ ReadName \/ ReadIndex
    \/ ReadBlock \/ ReadPad \/ SkipBlock
    \/ SkipValue \/ CheckSize \/ ReadValue
    \/ Report \/ SeekBack \/ WriteValue

Spec == Init /\ [][Next]_vars

\* The tag codec alone: any 16-bit tag code, and the assignments of len,
\* nindx and size of setnmi().
InitCodec ==
    /\ args = <<>> /\ operand = FALSE /\ disk = "files"
    /\ pc = "decode"
    /\ tag \in 0..(Pow2(8 * SizeofTag) - 1)
    /\ Start

DecodeTag ==
    /\ pc = "decode"
    /\ Decode(tag)
    /\ pc' = "decoded"
    /\ UNCHANGED <<cmd, cfg, stream, plocals, tag, name, idx, offs, blk, pad, buf, result, hist>>

NextCodec == DecodeTag

SpecCodec == InitCodec /\ [][NextCodec]_vars

\* The same program run on the files of family 5.
InitBlocks == Invoke("blocks")

SpecBlocks == InitBlocks /\ [][Next]_vars

\* The same program run on the files of family 6.
InitNames == Invoke("names")

SpecNames == InitNames /\ [][Next]_vars

(***************************************************************************)
(* What a file holds, read off its description: the records a run is to    *)
(* scan and the offsets of their payloads.                                 *)
(***************************************************************************)
\* The bytes of the file before the run.
Input == EncFile(src)

\* index[0] of a record: absent indices are zero.
Idx0(it) == IF it.idx = <<>> THEN Zeros(SizeofIndex) ELSE it.idx[1]

\* The streams that a group-table entry named cpu points at.
CpuStreams(d) == {d.groups[j].tgt : j \in {j \in 1..Len(d.groups) : d.groups[j].name = StrCpu}}

\* Index of the first terminator of a stream (one past its end without one).
TermIndex(s) ==
    IF \E n \in 1..Len(s) : s[n] = Terminator
    THEN CHOOSE n \in 1..Len(s) : s[n] = Terminator /\ \A m \in 1..(n - 1) : s[m] # Terminator
    ELSE Len(s) + 1

\* The records in front of the terminator of the cpu groups' streams.
Scanned(d) ==
    {kn \in UNION {{<<k, n>> : n \in 1..Len(d.streams[k])} : k \in CpuStreams(d)} :
        kn[2] < TermIndex(d.streams[kn[1]])}

AllItems(d) == UNION {{<<k, n>> : n \in 1..Len(d.streams[k])} : k \in 1..Len(d.streams)}

\* A pendingNMI record of value size 1 for the CPU c (4 bytes).
IsNmiFor(it, c) == it.name = StrPendingNMI /\ it.vsize = 1 /\ Idx0(it) = c

\* Payload offsets of the pendingNMI records for CPU c: of the whole file,
\* and of the records in front of the terminators of the cpu groups.
TargetPayloads(d, c) ==
    {PayloadOff(d, kn[1], kn[2]) : kn \in {x \in AllItems(d) : IsNmiFor(d.streams[x[1]][x[2]], c)}}

ScannedTargets(d, c) ==
    {PayloadOff(d, kn[1], kn[2]) : kn \in {x \in Scanned(d) : IsNmiFor(d.streams[x[1]][x[2]], c)}}

Range(f) == {f[k] : k \in DOMAIN f}

Finished == pc = "exit"

(***************************************************************************)
(* Properties.                                                             *)
(***************************************************************************)
\* C1 (as claimed): in query mode (g_cpu = -1 from -n) the file stays
\* byte-for-byte what it was, nothing is written, and every pendingNMI record
\* is only reported ("is"), whatever its index[0].
C1_QueryNeverMutates ==
    g_cpu = 0 - 1 =>
        /\ file = Input
        /\ wr = <<>>
        /\ \A k \in 1..Len(out) : out[k].what = "is"

\* C2 (as claimed): once -n has been given, in any position among the
\* options, the run writes nothing to the file.
C2_DisplayOnlyNeverWrites == sawN => (wr = <<>> /\ file = Input)

C5_AtMostOneByte ==
    /\ Cardinality(Range(wr)) <= 1
    /\ \A k \in 1..Len(wr) : wr[k] \in TargetPayloads(src, IntToU32(g_cpu))

\* C5 (amended): a run rewrites one byte for each matching pendingNMI record
\* it processes and no other: every written offset is the payload offset of
\* a size-1 pendingNMI record whose index[0] equals the CPU selector as
\* uint32_t, in front of the terminator of a cpu group, and there are never
\* more writes than records reported as being set.
C5_OneBytePerMatch ==
    /\ \A k \in 1..Len(wr) : wr[k] \in ScannedTargets(src, IntToU32(g_cpu))
    /\ Len(wr) <= Cardinality({k \in 1..Len(out) : out[k].what = "setting"})
    /\ Len(wr) <= Cardinality(Range(wr)) * Cardinality({j \in 1..Len(src.groups) : src.groups[j].name = StrCpu})

\* C5 witness: a run has rewritten two different bytes.
C5_Witness == Finished /\ Cardinality(Range(wr)) = 2

SchemaError == "found pendingNMI size to be unexpected value"

ReadErrors ==
    {"couldn't read VMSS header", "couldn't read groups", "couldn't read tag",
     "couldn't read name", "couldn't read index", "couldn't read block",
     "couldn't read padding", "couldn't read buffer"}

SupportedMagics == {<<210, 190, 210, 190>>, <<209, 190, 209, 190>>, <<211, 190, 211, 190>>}

\* The file is whole and its header and group table are read without error.
Intact(d) ==
    /\ d # NoFile /\ d.cut < 0
    /\ d.magic \in SupportedMagics /\ d.ngroups = Len(d.groups)

ItemAt(d, kn) == d.streams[kn[1]][kn[2]]

\* The first record of the stream of the first cpu group, if there is one.
FirstScanned(d) ==
    LET js == {j \in 1..Len(d.groups) : d.groups[j].name = StrCpu}
        j0 == CHOOSE j \in js : \A m \in js : j <= m
    IN  IF js = {} \/ d.streams[d.groups[j0].tgt] = <<>> THEN Terminator
        ELSE d.streams[d.groups[j0].tgt][1]

\* C6 (as claimed): a record named pendingNMI of any value-size code but 1,
\* the block codes 0x3e and 0x3f included, ends the run with the fatal
\* schema error: a run that ends without error has met none, and a run
\* whose first record is one ends with that error.
C6_AnySizeIsFatal ==
    /\ (Finished /\ status = 0) =>
          \A kn \in Scanned(src) :
              ItemAt(src, kn).name = StrPendingNMI => ItemAt(src, kn).vsize = 1
    /\ (Finished /\ Intact(src) /\ FirstScanned(src).name = StrPendingNMI
            /\ FirstScanned(src).vsize # 1) => err = SchemaError

\* C6 (amended): a record named pendingNMI whose value-size code is 0 or
\* 2..61 ends the run with the fatal schema error and is never skipped or
\* read as a value; with the block code 0x3e or 0x3f the record is a block
\* and is skipped without error.
C6_InlineSizeIsFatal ==
    /\ (Finished /\ status = 0) =>
          \A kn \in Scanned(src) :
              ItemAt(src, kn).name = StrPendingNMI => ItemAt(src, kn).vsize \in {1, 62, 63}
    /\ (Finished /\ Intact(src) /\ FirstScanned(src).name = StrPendingNMI
            /\ FirstScanned(src).vsize \notin {1, 62, 63}) => err = SchemaError
    /\ pc \in {"value", "match", "reset", "write"} =>
          (name = StrPendingNMI /\ tag % 64 = 1)
    /\ (Finished /\ Intact(src)
            /\ \A k \in CpuStreams(src) : TermIndex(src.streams[k]) <= Len(src.streams[k])
            /\ \A kn \in Scanned(src) :
                  /\ ItemAt(src, kn).name = StrPendingNMI
                  /\ ItemAt(src, kn).vsize \in {62, 63})
          => (status = 0 /\ wr = <<>> /\ out = <<>>)
    /\ err = SchemaError =>
          \E kn \in Scanned(src) :
              /\ ItemAt(src, kn).name = StrPendingNMI
              /\ ItemAt(src, kn).vsize \notin {1, 62, 63}

\* C6 witness: the run has ended with the schema error.
C6_Witness == Finished /\ status = 1 /\ err = SchemaError

\* C7 (as claimed): a record with a non-zero tag code whose bytes are all in
\* the file is decoded: at the dispatch the name and the indices are those
\* of the record whose payload starts at the cursor, and a read is fatal
\* only when fewer bytes than requested were left (here for the runs that
\* have written nothing, whose reads are all defined).
C7_WellFormedDecoded ==
    /\ (pc = "dispatch" /\ Intact(src)) =>
          \E kn \in AllItems(src) :
              /\ PayloadOff(src, kn[1], kn[2]) = pos
              /\ ItemAt(src, kn).name = name
              /\ \A k \in 1..3 :
                    idx[k] = IF k <= Len(ItemAt(src, kn).idx)
                             THEN ItemAt(src, kn).idx[k] ELSE Zeros(SizeofIndex)
    /\ (Finished /\ err \in ReadErrors /\ wr = <<>>) => pos >= Len(file)

\* The offsets a run may touch: the header, the group table, and each cpu
\* group's stream from its start to the end of its first terminator (to the
\* end of the file without one).
ScanEnd(d, k) ==
    IF TermIndex(d.streams[k]) <= Len(d.streams[k])
    THEN ItemOff(d, k, TermIndex(d.streams[k])) + SizeofTag
    ELSE Len(EncFile(d))

Reachable(d) ==
    (0..(SizeofHeader + SizeofGroup * Len(d.groups) - 1))
        \cup UNION {StreamOff(d, k)..(ScanEnd(d, k) - 1) : k \in CpuStreams(d)}

\* C8: a zero tag code ends the scan of a group at once: no byte behind the
\* terminator's two bytes is read or written for that group, whatever its
\* declared size; and only a zero tag code ends a scan without error, so a
\* run that ends without error has read the terminator of every cpu group.
C8_TerminatorEndsScan ==
    /\ (rd \cup Range(wr)) \subseteq Reachable(src)
    /\ (Finished /\ status = 0) =>
          \A k \in CpuStreams(src) :
              /\ TermIndex(src.streams[k]) <= Len(src.streams[k])
              /\ {ScanEnd(src, k) - 2, ScanEnd(src, k) - 1} \subseteq rd

\* C8 witness: a run has ended without error over a cpu group declared
\* empty, having reported a record of it, in a file with bytes behind the
\* terminator.
C8_Witness ==
    /\ Finished /\ status = 0 /\ out # <<>>
    /\ \E j \in 1..Len(src.groups) : src.groups[j].name = StrCpu /\ src.groups[j].size = 0
    /\ \E p \in 1..Len(file) : (p - 1) \notin Reachable(src)

\* C9: a file whose magic is the 32-bit one, or none of the three supported
\* ones, fails with the format error once the header is read: no byte of
\* the group table is read, no group is scanned, nothing is written.
C9_BadMagicRejected ==
    (src # NoFile /\ src.cut < 0 /\ src.magic \notin SupportedMagics) =>
        /\ rd \subseteq 0..(SizeofHeader - 1)
        /\ wr = <<>> /\ out = <<>> /\ groups = <<>> /\ file = Input
        /\ pc \in {"header", "magic", "exit"}
        /\ Finished =>
              /\ status = 1
              /\ err = IF src.magic = <<208, 190, 208, 190>>
                       THEN "can't read 32-bit VMSS file"
                       ELSE "not recognized as a VMSS file"

\* C9 witness: the run over a 32-bit file has ended with the format error.
C9_Witness ==
    /\ Finished /\ src # NoFile /\ src.magic = <<208, 190, 208, 190>>
    /\ err = "can't read 32-bit VMSS file"

\* A record of the format: name of 0..255 bytes, 0..3 indices, an inline
\* value of 0..61 bytes, or a block.
WellFormed(it) ==
    /\ Len(it.name) \in 0..255 /\ Len(it.idx) \in 0..3
    /\ TagCode(it) # 0
    /\ \/ it.vsize \in 0..61 /\ Len(it.data) = it.vsize
       \/ it.vsize \in {62, 63}

\* C10 (as claimed): over a supported container whose cpu groups are well
\* formed and terminated and hold no pendingNMI record (or that has no cpu
\* group), the run ends with exit status 0 and the file is the input.
C10_NoRecordIsSuccess ==
    (/\ Finished /\ Intact(src)
     /\ \A k \in CpuStreams(src) : TermIndex(src.streams[k]) <= Len(src.streams[k])
     /\ \A kn \in Scanned(src) :
           WellFormed(ItemAt(src, kn)) /\ ItemAt(src, kn).name # StrPendingNMI)
        => (status = 0 /\ err = "" /\ file = Input /\ wr = <<>>)

(***************************************************************************)
(* C11..C19                                                                *)
(***************************************************************************)
\* The 8 little-endian bytes b as a natural number; 2^30 and more read as Far.
Nat64(b) ==
    IF b[5] = 0 /\ b[6] = 0 /\ b[7] = 0 /\ b[8] = 0 /\ b[4] < 64
    THEN b[1] + 256 * b[2] + 65536 * b[3] + 16777216 * b[4]
    ELSE Far

\* The block records of the file whose header lies at offset o.
BlocksAt(d, o) ==
    {kn \in AllItems(d) :
        /\ ItemAt(d, kn).vsize \in {VMSS_TAG_VALSIZE_BLOCK_COMPRESSED, VMSS_TAG_VALSIZE_BLOCK}
        /\ PayloadOff(d, kn[1], kn[2]) = o}

BlockSize(it) == Nat64(SubSeq(it.data, 1, 8))
BlockPad(it) == U16(SubSeq(it.data, 17, 18))

\* C11: once a block of declared size S and pad P has been processed, the
\* cursor is at the offset of the block's header + 18 + S + P (beyond every
\* file of the model when S is 2^30 or more), and no byte of the S + P bytes
\* behind the header has been read.
C11_BlockSkipExact ==
    (pc = "tag" /\ VMSS_TAG_ISBLOCK(tag)) =>
        \A kn \in BlocksAt(src, offs) :
            LET s == BlockSize(ItemAt(src, kn))
                p == BlockPad(ItemAt(src, kn))
                from == offs + SizeofBlock + SizeofPad
            IN  IF s < Far
                THEN pos = from + s + p /\ rd \cap (from..(from + s + p - 1)) = {}
                ELSE pos >= Far /\ rd \cap (from..Len(file)) = {}

\* C16: with every record processed, whether inline, a block or patched, the
\* cursor is beyond the offset of that record's tag.
C16_CursorAdvances == (pc = "tag" /\ at >= 0) => pos > at

\* The blocks in front of the terminators of the cpu groups whose size + pad
\* bytes, counted from the end of their header, end beyond the end of the
\* file (sizes below 2^30 only).
PastEndBlocks(d) ==
    {kn \in Scanned(d) :
        LET it == ItemAt(d, kn)
        IN  /\ it.vsize \in {VMSS_TAG_VALSIZE_BLOCK_COMPRESSED, VMSS_TAG_VALSIZE_BLOCK}
            /\ BlockSize(it) < Far
            /\ PayloadOff(d, kn[1], kn[2]) + SizeofBlock + SizeofPad
                   + BlockSize(it) + BlockPad(it) > Len(EncFile(d))}

C13_ExactNameOnly ==
    /\ pc \in {"value", "match", "reset", "write"} =>
          ~VMSS_TAG_ISBLOCK(tag) /\ name = StrPendingNMI
    /\ \A k \in 1..Len(wr) :
          \E kn \in AllItems(src) :
              /\ ItemAt(src, kn).name = StrPendingNMI
              /\ wr[k] = PayloadOff(src, kn[1], kn[2])
    /\ Len(out) <= Cardinality({kn \in AllItems(src) : ItemAt(src, kn).name = StrPendingNMI})

\* The entries of the group table named cpu, in table order, each with the
\* offset it declares.
CpuEntries(d) ==
    LET js == SelectSeq([j \in 1..Len(d.groups) |-> j], LAMBDA j : d.groups[j].name = StrCpu)
    IN  [k \in 1..Len(js) |-> [group |-> js[k], offs |-> StreamOff(d, d.groups[js[k]].tgt)]]

\* C14: setnmi() is called once for each entry of the group table named cpu,
\* in table order, and starts reading at the offset of that entry; a run
\* that ends without error has called it for all of them; for a table with
\* no entry named cpu nothing behind the table is read, reported or written.
C14_OncePerCpuGroup ==
    LET expected == CpuEntries(src)
    IN  /\ Len(scans) <= Len(expected)
        /\ \A k \in 1..Len(scans) : scans[k] = expected[k]
        /\ (pc = "tag" /\ at < 0) => pos = scans[Len(scans)].offs
        /\ (Finished /\ status = 0) => scans = expected
        /\ expected = <<>> =>
              /\ out = <<>> /\ wr = <<>>
              /\ rd \subseteq 0..(SizeofHeader + SizeofGroup * Len(src.groups) - 1)

\* A run over a table of two entries named cpu whose offsets decrease, both
\* scanned.
C14_Witness ==
    /\ Finished /\ status = 0
    /\ Len(scans) = 2 /\ scans[1].offs > scans[2].offs

\* C15: the three fields of a 16-bit tag code t partition its bits: len is
\* bits 15..8 (0..255), nindx bits 7..6 (0..3), size bits 5..0 (0..63),
\* len * 256 + nindx * 64 + size = t, and the tag is a block exactly when
\* size is 62 or 63.
C15_CodecLossless ==
    pc = "decoded" =>
        /\ len \in 0..255 /\ len = tag \div 256
        /\ nindx \in 0..3 /\ nindx = (tag % 256) \div 64
        /\ size \in 0..63 /\ size = tag % 64
        /\ len * 256 + nindx * 64 + size = tag
        /\ VMSS_TAG_ISBLOCK(tag) <=> size \in {62, 63}

\* The tag code 0xffff decoded: every field at its maximum, a block.
C15_Witness ==
    /\ pc = "decoded" /\ tag = 65535
    /\ len = 255 /\ nindx = 3 /\ size = 63 /\ VMSS_TAG_ISBLOCK(tag)

\* The byte range [offset, offset + size) that entry j of the group table
\* declares.
DeclaredRange(d, j) ==
    LET g == d.groups[j]
        from == StreamOff(d, g.tgt)
        n == IF g.size < 0 THEN Len(EncStream(d.streams[g.tgt])) ELSE g.size
    IN  from..(from + n - 1)

CpuIndices(d) == {j \in 1..Len(d.groups) : d.groups[j].name = StrCpu}

Clean(d) ==
    /\ Intact(d)
    /\ \A k \in CpuStreams(d) : TermIndex(d.streams[k]) <= Len(d.streams[k])
    /\ \A kn \in Scanned(d) :
          LET it == ItemAt(d, kn)
          IN  /\ it.name # <<>>
              /\ it.name = StrPendingNMI =>
                    it.vsize \in {1, VMSS_TAG_VALSIZE_BLOCK_COMPRESSED, VMSS_TAG_VALSIZE_BLOCK}

\* The (CPU id, value) pairs of the pendingNMI records of a stream in front
\* of its terminator, read off the input, and those of a whole file in the
\* order of the cpu entries of its group table.
StreamReports(s) ==
    LET ns == SelectSeq([n \in 1..(TermIndex(s) - 1) |-> n],
                        LAMBDA n : s[n].name = StrPendingNMI /\ s[n].vsize = 1)
    IN  [k \in 1..Len(ns) |-> <<Idx0(s[ns[k]]), s[ns[k]].data[1]>>]

ExpectedReports(d) ==
    LET es == CpuEntries(d)
    IN  Flatten([k \in 1..Len(es) |-> StreamReports(d.streams[d.groups[es[k].group].tgt])])

\* C18: directly behind the overwrite the cursor is on the byte behind the
\* patched payload, and a run over a clean file, whether it patches or only
\* queries, ends without error having reported the (CPU id, prior value)
\* pairs of the input's pendingNMI records in order.
C18_PatchKeepsScan ==
    /\ (pc = "tag" /\ lastio = "w") => pos = wr[Len(wr)] + 1
    /\ (Finished /\ Clean(src)) =>
          /\ status = 0
          /\ [k \in 1..Len(out) |-> <<out[k].cpu, out[k].val>>] = ExpectedReports(src)

\* C19: the buffers of setnmi() hold what is read into them: the name and
\* its NUL take at most 256 bytes, the index array never holds more than 3
\* entries and its entries behind the nindx read ones are zero, and the value
\* buffer is read into only for a value size of 1, one byte.
C19_BuffersBounded ==
    /\ Len(name) + 1 <= NameCap
    /\ Len(idx) <= IdxCap
    /\ pc \in {"dispatch", "pad", "skip", "value", "match", "reset", "write"} =>
          /\ nindx <= IdxCap /\ Len(idx) = IdxCap
          /\ \A k \in (nindx + 1)..IdxCap : idx[k] = Zeros(SizeofIndex)
    /\ pc \in {"value", "match", "reset", "write"} => size = 1
    /\ Len(buf) <= 1 /\ Len(buf) <= BufCap

\* A record with a name of 255 bytes and 3 indices, read.
C19_Witness ==
    /\ pc = "dispatch"
    /\ Len(name) = 255 /\ nindx = 3 /\ idx[3] # Zeros(SizeofIndex)

====
